---------------------------- MODULE Spec2Model ----------------------------
(***************************************************************************)
(* A model of pyraft (src/pyraft): the role engine of state.py, the list   *)
(* store of storage.py and the state machine, for a cluster of three       *)
(* peers exchanging datagrams that may be lost, reordered or duplicated.  *)
(*                                                                         *)
(* Every peer is one record of `peer`: the fields of its State, of its     *)
(* stores and of its current role object, plus history fields (led,        *)
(* votes, applied, apply_in_order, last_call) that only record what the   *)
(* code did.  `msgs` is the set of datagrams sent so far; a datagram in it *)
(* may be delivered any number of times (never: loss; twice: duplication). *)
(*                                                                         *)
(* The codec is taken to round-trip what it packed (Pack/Unpack); the      *)
(* keyed store of current_term and voted_for is a durable map.             *)
(***************************************************************************)
EXTENDS Integers, Sequences, FiniteSets, TLC

\* ------------------------------------------------------------- bounds --
\* Each specification below explores the cluster inside its own bounds.
ElectMaxTerm == 1          \* SpecElection: highest term an election may open
ElectMaxRestarts == 1
TermsMaxTerm == 2          \* SpecTerms
TermsMaxRestarts == 1
ReplMaxCommands == 2       \* SpecReplication: commands handed to set_value
ReplMaxRequestId == 2      \*   highest request_id a heartbeat tick may reach
ReplMaxFile == 4           \*   longest log file, in lines
TwoMaxCommands == 2        \* SpecTwoLeaders
TwoMaxFile == 2
DeepMaxCommands == 3       \* SpecDeepLog
DeepMaxFile == 5
LeadMaxCommands == 4       \* SpecLeaderAppend
LeadMaxFile == 9
OverMaxCommands == 2       \* SpecOverlap
OverMaxFile == 4
PropMaxCommands == 2       \* SpecProposal
PropMaxFile == 2
VoteMaxTerm == 1
RepairLogLen == 5
RepairDivergence == 2
RepairMaxRequestId == 2
RepairMaxFile == 10
PartMaxTerm == 2
PartMaxCommands == 1
StoreMaxValue == 2
StoreMaxLen == 3
SingleMaxTerm == 40
SingleMaxRestarts == 1
ClientMaxCommands == 2
MajorityMaxPeers == 6      \* SpecMajority: largest cluster, this peer included
CatchUpLeaderLen == 6
CatchUpLogLen == 2
CatchUpMaxCommands == 1
CatchUpMaxFile == 7
BeatsMaxRequestId == 2
PulseMaxRequestId == 3

\* -------------------------------------------------- program constants --
UPDATE_CACHE_INTERVAL == 5
APPEND_ENTRIES_MAX_NUM == 3

Server == {"A", "B", "C"}
\* Every address a cluster of some specification is built from.
Address == {"A", "B", "C", "D", "E", "F"}
Nil == "None"

Min(a, b) == IF a < b THEN a ELSE b
Max(a, b) == IF a > b THEN a ELSE b

\* ----------------------------------------------------------- codec -----
Pack(item) == <<"packed", item>>
IsPacked(x) == Len(x) = 2 /\ x[1] = "packed"
Unpack(x) == x[2]

RECURSIVE PackAll(_)
PackAll(items) ==
    IF items = <<>> THEN <<>> ELSE <<Pack(Head(items))>> \o PackAll(Tail(items))

RECURSIVE UnpackAll(_)
UnpackAll(lines) ==
    IF lines = <<>> THEN <<>> ELSE <<Unpack(Head(lines))>> \o UnpackAll(Tail(lines))

\* ------------------------------------------------- schema.LogEntry -----
LogEntry(term, command) == [term |-> term, command |-> command]

\* --------------------------------- storage.AbstractListStorage ---------
\* A list store is [cache, file]: the in-memory list and the file's lines.

\* Python's cache[:k]: the first k items, or all but the last -k for k < 0.
SliceTo(cache, k) ==
    IF k >= 0 THEN SubSeq(cache, 1, Min(k, Len(cache)))
    ELSE SubSeq(cache, 1, Max(Len(cache) + k, 0))

\* Python's cache[a:b] for 0 <= b; a negative a counts from the end.
SliceFromTo(cache, a, b) ==
    LET from == IF a < 0 THEN Max(Len(cache) + a, 0) ELSE a
    IN  SubSeq(cache, from + 1, Min(b, Len(cache)))

\* _set_storage_item / _set_storage_items: the file is opened 'ab'.
SetStorageItems(st, lines) == [st EXCEPT !.file = @ \o lines]

Refresh(st) == [st EXCEPT !.cache = UnpackAll(st.file)]

AppendItem(st, item) ==
    LET w == SetStorageItems(st, <<Pack(item)>>)
    IN  IF Len(st.cache) % UPDATE_CACHE_INTERVAL # 0
        THEN [w EXCEPT !.cache = Append(@, item)]
        ELSE Refresh(w)

AppendItems(st, items) ==
    LET w == SetStorageItems(st, PackAll(items))
    IN  IF Len(st.cache) % UPDATE_CACHE_INTERVAL # 0
        THEN [w EXCEPT !.cache = @ \o items]
        ELSE Refresh(w)

EraseFrom(st, index) ==
    LET new_cache == SliceTo(st.cache, index - 1)
    IN  [SetStorageItems(st, PackAll(new_cache)) EXCEPT !.cache = new_cache]

\* __getitem__: [st, ok, item]; ok = FALSE is IndexError.  Python's
\* cache[index-1] with index <= 0 counts from the end: index = 0 reads
\* cache[-1], the last item.
GetItem(st, index) ==
    LET r == IF index > Len(st.cache) THEN Refresh(st) ELSE st
        at == IF index <= 0 THEN Len(r.cache) + index ELSE index
    IN  IF at < 1 \/ at > Len(r.cache) THEN [st |-> r, ok |-> FALSE, item |-> Nil]
        ELSE [st |-> r, ok |-> TRUE, item |-> r.cache[at]]

\* get_items(start_index, end_index) with end_index >= start_index and
\* end_index >= 1.
GetItems(st, start_index, end_index) ==
    LET r == IF start_index > Len(st.cache) THEN Refresh(st) ELSE st
    IN  [st |-> r, ok |-> start_index <= Len(r.cache),
         items |-> SliceFromTo(r.cache, start_index - 1, end_index)]

LastLogIndex(st) == Len(st.cache)
LastLogTerm(st) == IF st.cache = <<>> THEN 0 ELSE st.cache[Len(st.cache)].term

\* --------------------------------------------- storage.StateMachine ----
\* The state machine's dict is a set of <<key, value>> pairs.  A command
\* is the dict {"test": value} that server.py writes.
Command(value) == {<<"test", value>>}

Keys(d) == {kv[1] : kv \in d}

\* AbstractDictStorage.refresh on StateMachine: _get_storage_content is the
\* dict itself, and a non-empty dict is handed to serializer.unpack, which
\* takes packed text only: [ok, cache].
SmRefresh(cache) ==
    IF cache # {} THEN [ok |-> FALSE, cache |-> cache]
    ELSE [ok |-> TRUE, cache |-> {}]

\* StateMachine.apply without apply_handler: update(command).
SmApply(cache, command) ==
    LET r == SmRefresh(cache)
    IN  IF ~r.ok THEN r
        ELSE [ok |-> TRUE,
              cache |-> {kv \in r.cache : kv[1] \notin Keys(command)} \cup command]


\* ------------------------------------------------------------ state ----
VARIABLES
    peer,       \* peer[p]: the State of p, its stores and its role object
    msgs,       \* the datagrams sent so far
    issued,     \* how many commands clients have handed to set_value
    restarts,   \* how many times a peer was restarted
    limit       \* the bounds of the run; never changes

vars == <<peer, msgs, issued, restarts, limit>>

\* server.cluster of peer p: the other peers (run.py pops the current one).
Cluster(p) == DOMAIN peer \ {p}

NoIndex == [q \in Address |-> 0]

\* State.__init__ followed by State.start on the stores found on disk.
NewState(p, current_term, file, led, votes, stored) ==
    [id |-> p,
     role |-> "Follower",
     current_term |-> current_term,
     voted_for |-> Nil,
     log |-> [cache |-> UnpackAll(file), file |-> file],
     commit_index |-> 0,
     last_applied |-> 0,
     next_index |-> NoIndex,
     match_index |-> NoIndex,
     state_machine |-> {},
     leader |-> Nil,
     vote_count |-> 0,
     request_id |-> 0,
     response_mapping |-> {},
     zombie_step_down |-> FALSE,
     zombie_heartbeat |-> FALSE,
     apply_future_dict |-> {},
     calls |-> {},
     registered |-> {},
     resolved |-> {},
     leader_future |-> {},
     waiting |-> {},
     called |-> {},
     built |-> {},
     rejected |-> {},
     led |-> led,
     votes |-> votes,
     stored |-> {<<i, Unpack(file[i])>> : i \in 1..Len(file)} \cup stored,
     applied |-> <<>>,
     apply_in_order |-> TRUE,
     last_call |-> 0]

\* A handler's run is a context [s, out, timer_reset, step_down_reset]:
\* the peer's state so far, the datagrams it has handed to State.send,
\* whether it has called reset on the election timer of its Follower, and
\* whether it has called reset on the step_down_timer of its Leader.
Ctx(s) == [s |-> s, out |-> {}, timer_reset |-> FALSE, step_down_reset |-> FALSE]

Send(c, m) == [c EXCEPT !.out = @ \cup {m}]

RequestVote(src, dst, term, last_log_index, last_log_term) ==
    [type |-> "request_vote", src |-> src, dst |-> dst, term |-> term,
     candidate_id |-> src, last_log_index |-> last_log_index,
     last_log_term |-> last_log_term]

RequestVoteResponse(src, dst, term, vote_granted) ==
    [type |-> "request_vote_response", src |-> src, dst |-> dst,
     term |-> term, vote_granted |-> vote_granted]

AppendEntries(src, dst, term, prev_log_index, prev_log_term, entries, leader_commit, request_id) ==
    [type |-> "append_entries", src |-> src, dst |-> dst, term |-> term,
     leader_id |-> src, prev_log_index |-> prev_log_index,
     prev_log_term |-> prev_log_term, entries |-> entries,
     leader_commit |-> leader_commit, request_id |-> request_id]

AppendEntriesResponse(src, dst, term, success, last_log_index, last_log_term, request_id) ==
    [type |-> "append_entries_response", src |-> src, dst |-> dst,
     term |-> term, success |-> success, last_log_index |-> last_log_index,
     last_log_term |-> last_log_term, request_id |-> request_id]

\* State.is_majority: server.cluster holds the other peers only.
IsMajority(p, count) == count > Cardinality(Cluster(p)) \div 2

\* ------------------------------------------------- role transitions ----
\* Follower.init_storage on a store that holds current_term.
FollowerInitStorage(s) == [s EXCEPT !.voted_for = Nil]

\* The execute_command calls in flight when the role object is replaced:
\* each goes on with the Leader object it was called on, whose request_id
\* no longer changes.
Orphaned(s) ==
    {IF call.live THEN [call EXCEPT !.live = FALSE, !.request_id = s.request_id]
                  ELSE call : call \in s.calls}

\* State.set_leader with a leader that is not None: cls.leader_future, if
\* there is one and it is not done, gets its result.  leader_future is the
\* future cls.leader_future refers to (none: {}), waiting the futures that
\* set_value calls are suspended on; each is [call, done].
SetLeader(s, leader) ==
    LET Done(fs) == {[f EXCEPT !.done = TRUE] : f \in fs}
    IN  [s EXCEPT !.leader = leader,
                  !.waiting = (@ \ s.leader_future) \cup Done(s.leader_future),
                  !.leader_future = Done(@)]

\* State.to_follower without its set_leader(None): the peer goes on naming
\* the leader it knew.
ToFollowerKeepingLeader(c) ==
    [c EXCEPT !.s = [FollowerInitStorage(c.s) EXCEPT
                        !.role = "Follower",
                        !.vote_count = 0,
                        !.request_id = 0,
                        !.response_mapping = {},
                        !.apply_future_dict = {},
                        !.calls = Orphaned(c.s)]]

\* State.to_follower: _change_role(Follower), Follower.start, set_leader(None).
ToFollower(c) ==
    [c EXCEPT !.s = [FollowerInitStorage(c.s) EXCEPT
                        !.role = "Follower",
                        !.leader = Nil,
                        !.vote_count = 0,
                        !.request_id = 0,
                        !.response_mapping = {},
                        !.apply_future_dict = {},
                        !.calls = Orphaned(c.s)]]

\* Candidate.init_storage.
CandidateInitStorage(s) ==
    [s EXCEPT !.current_term = @ + 1,
              !.voted_for = s.id,
              !.votes = @ \cup {<<s.current_term + 1, s.id>>}]

\* Candidate.rpc_request_vote: broadcast to server.cluster.
RpcRequestVote(c) ==
    [c EXCEPT !.out = @ \cup
        {RequestVote(c.s.id, q, c.s.current_term, LastLogIndex(c.s.log),
                     LastLogTerm(c.s.log)) : q \in Cluster(c.s.id)}]

\* State.to_candidate: _change_role(Candidate), Candidate.start, set_leader(None).
ToCandidate(c) ==
    RpcRequestVote(
        [c EXCEPT !.s = [CandidateInitStorage(c.s) EXCEPT
                            !.role = "Candidate",
                            !.leader = Nil,
                            !.vote_count = 1,
                            !.request_id = 0,
                            !.response_mapping = {}]])

\* Leader.rpc_append_entries for one peer, with the request_id of the
\* Leader object that sends.
RpcAppendEntriesTo(c, request_id, server_id) ==
    LET s == c.s
        next_index == s.next_index[server_id]
        prev_index == next_index - 1
        got == IF LastLogIndex(s.log) >= next_index
               THEN GetItems(s.log, next_index, next_index + APPEND_ENTRIES_MAX_NUM)
               ELSE [st |-> s.log, ok |-> TRUE, items |-> <<>>]
        prev == GetItem(got.st, prev_index)
        request == AppendEntries(s.id, server_id, s.current_term, prev_index,
                                 IF prev.ok THEN prev.item.term ELSE 0,
                                 got.items, s.commit_index, request_id)
    IN  Send([c EXCEPT !.s.log = prev.st], request)

RECURSIVE RpcAppendEntries(_, _, _)
RpcAppendEntries(c, request_id, servers) ==
    IF servers = {} THEN c
    ELSE LET q == CHOOSE x \in servers : TRUE
         IN  RpcAppendEntries(RpcAppendEntriesTo(c, request_id, q), request_id,
                              servers \ {q})

\* Leader.init_log.
InitLog(s) ==
    [s EXCEPT !.next_index = [q \in Address |->
                                IF q \in Cluster(s.id) THEN LastLogIndex(s.log) + 1 ELSE 0],
              !.match_index = NoIndex]

\* Leader.heartbeat: the tick and the send it schedules.
Heartbeat(c) ==
    LET d == [c EXCEPT !.s.request_id = @ + 1]
    IN  RpcAppendEntries(d, d.s.request_id, Cluster(d.s.id))

\* State.to_leader: _change_role(Leader), Leader.start, set_leader(role).
ToLeader(c) ==
    Heartbeat(
        [c EXCEPT !.s = SetLeader([InitLog(c.s) EXCEPT
                                      !.role = "Leader",
                                      !.vote_count = 0,
                                      !.request_id = 0,
                                      !.response_mapping = {},
                                      !.apply_future_dict = {},
                                      !.led = @ \cup {c.s.current_term}],
                                  c.s.id)])

\* ---------------------------------------------------- validate_term ----
\* validate_term with "!=" in place of ">" in its first test: the peer
\* adopts every term that differs from its own.
ValidateTermAdopting(c, data, sender) ==
    LET s == c.s
        raised == [c EXCEPT !.s.current_term = data.term]
    IN  IF data.term # s.current_term
        THEN [c |-> IF s.role # "Follower" THEN ToFollower(raised) ELSE raised,
              go |-> TRUE]
        ELSE [c |-> c, go |-> TRUE]

\* validate_term without its call of state.to_follower: the term is
\* adopted and the role object stays.
ValidateTermKeepingRole(c, data, sender) ==
    IF data.term > c.s.current_term
    THEN [c |-> [c EXCEPT !.s.current_term = data.term], go |-> TRUE]
    ELSE [c |-> c, go |-> TRUE]

\* validate_term without the return after its rejections: a stale request
\* is answered and func is called all the same.
ValidateTermAnswering(c, data, sender) ==
    LET s == c.s
    IN  IF data.term > s.current_term
        THEN LET raised == [c EXCEPT !.s.current_term = data.term]
             IN  [c |-> IF s.role # "Follower" THEN ToFollower(raised) ELSE raised,
                  go |-> TRUE]
        ELSE IF data.term < s.current_term /\ data.type = "request_vote"
        THEN [c |-> Send(c, RequestVoteResponse(s.id, sender, s.current_term, FALSE)),
              go |-> TRUE]
        ELSE IF data.term < s.current_term /\ data.type = "append_entries"
        THEN [c |-> Send(c, AppendEntriesResponse(s.id, sender, s.current_term, FALSE,
                                LastLogIndex(s.log), LastLogTerm(s.log), data.request_id)),
              go |-> TRUE]
        ELSE [c |-> c, go |-> TRUE]

\* The decorator's own part: [c, go]; go says whether func is called.  A
\* role that is not Follower is demoted and func still runs on the old
\* role object.
ValidateTerm(c, data, sender) ==
    LET s == c.s
    IN  IF data.term > s.current_term
        THEN LET raised == [c EXCEPT !.s.current_term = data.term]
             IN  [c |-> IF s.role # "Follower" THEN ToFollower(raised) ELSE raised,
                  go |-> TRUE]
        ELSE IF data.term < s.current_term /\ data.type = "request_vote"
        THEN [c |-> Send(c, RequestVoteResponse(s.id, sender, s.current_term, FALSE)),
              go |-> FALSE]
        ELSE IF data.term < s.current_term /\ data.type = "append_entries"
        THEN [c |-> Send(c, AppendEntriesResponse(s.id, sender, s.current_term, FALSE,
                                LastLogIndex(s.log), LastLogTerm(s.log), data.request_id)),
              go |-> FALSE]
        ELSE [c |-> c, go |-> TRUE]

\* -------------------------------------------- validate_commit_index ----
\* apply_future_dict is kept as a set of <<index, call>>, one per index.
Register(dict, key, call) == {x \in dict : x[1] # key} \cup {<<key, call>>}

FutureAt(dict, key) == {x[2] : x \in {y \in dict : y[1] = key}}

\* The loop over range(last_applied + 1, commit_index + 1), run for the role
\* object self that took the message.  It ends early when log[not_applied]
\* raises IndexError or state_machine.apply raises.
RECURSIVE ApplyRange(_, _, _, _)
ApplyRange(s, self, not_applied, stop) ==
    IF not_applied > stop THEN s
    ELSE LET got == GetItem(s.log, not_applied)
             read == [s EXCEPT !.log = got.st]
         IN  IF ~got.ok THEN read
             ELSE LET done == SmApply(s.state_machine, got.item.command)
                      called == [read EXCEPT
                                    !.apply_in_order = @ /\ not_applied = s.last_call + 1,
                                    !.last_call = not_applied]
                      popped == IF self.role = "Leader"
                                THEN FutureAt(self.apply_future_dict, not_applied)
                                ELSE {}
                  IN  IF ~done.ok THEN called
                      ELSE ApplyRange([called EXCEPT
                                          !.state_machine = done.cache,
                                          !.last_applied = @ + 1,
                                          !.applied = Append(@, got.item.command),
                                          !.apply_future_dict =
                                              {x \in @ : x[1] # not_applied},
                                          !.resolved = @ \cup popped],
                                      self, not_applied + 1, stop)

ValidateCommitIndex(c, self) ==
    IF c.s.commit_index > c.s.last_applied
    THEN [c EXCEPT !.s = ApplyRange(c.s, self, c.s.last_applied + 1, c.s.commit_index)]
    ELSE c

\* --------------------------------------------------------- Follower ----
UpToDate(data, log) ==
    \/ data.last_log_term > LastLogTerm(log)
    \/ /\ data.last_log_term = LastLogTerm(log)
       /\ data.last_log_index >= LastLogIndex(log)

\* The decision of Follower.on_receive_request_vote.
VoteGranted(s, data) ==
    \/ s.voted_for = Nil \/ s.voted_for = data.candidate_id
    \/ UpToDate(data, s.log)

FollowerOnReceiveRequestVote(c, data, sender) ==
    LET s == c.s
        vote_granted == VoteGranted(s, data)
        voted == IF vote_granted
                 THEN [c EXCEPT !.s.voted_for = data.candidate_id,
                                !.s.votes = @ \cup {<<s.current_term, data.candidate_id>>}]
                 ELSE c
    IN  Send(voted, RequestVoteResponse(s.id, sender, s.current_term, vote_granted))

\* The consistency check without its comparison of terms: only the length
\* of the log is looked at.
InconsistentLength(s, data) ==
    LastLogIndex(s.log) < data.prev_log_index

\* The consistency check of Follower.on_receive_append_entries.
Inconsistent(s, data) ==
    \/ LastLogIndex(s.log) < data.prev_log_index
    \/ /\ data.prev_log_index # 0
       /\ GetItem(s.log, data.prev_log_index).item.term # data.prev_log_term

\* The log after an accepted AppendEntries.
AcceptEntries(log, data) ==
    AppendItems(IF LastLogIndex(log) > data.prev_log_index
                THEN EraseFrom(log, data.prev_log_index)
                ELSE log,
                data.entries)

\* The commit index after an accepted AppendEntries.
FollowerCommit(s, data) ==
    IF data.leader_commit > s.commit_index
    THEN Min(data.leader_commit, LastLogIndex(s.log))
    ELSE s.commit_index

FollowerOnReceiveAppendEntries(c, data, sender) ==
    LET known == [c EXCEPT !.s = SetLeader(@, data.leader_id)]
        s == known.s
    IN  IF Inconsistent(s, data)
        THEN Send(known, AppendEntriesResponse(s.id, sender, s.current_term, FALSE,
                            LastLogIndex(s.log), LastLogTerm(s.log), data.request_id))
        ELSE LET kept == [s EXCEPT !.log = AcceptEntries(s.log, data)]
                 t == [kept EXCEPT !.commit_index = FollowerCommit(kept, data)]
             IN  Send([known EXCEPT !.s = t, !.timer_reset = TRUE],
                      AppendEntriesResponse(t.id, sender, t.current_term, TRUE,
                            LastLogIndex(t.log), LastLogTerm(t.log), data.request_id))

\* -------------------------------------------------------- Candidate ----
\* `self` is the Candidate object the handler runs on: its vote_count is
\* the object's, also after validate_term has replaced the role.
CandidateOnReceiveRequestVoteResponse(c, self, data) ==
    IF data.vote_granted
    THEN LET vote_count == self.vote_count + 1
             counted == IF c.s.role = "Candidate"
                        THEN [c EXCEPT !.s.vote_count = vote_count]
                        ELSE c
         IN  IF IsMajority(c.s.id, vote_count) THEN ToLeader(counted) ELSE counted
    ELSE c

CandidateOnReceiveAppendEntries(c, data) ==
    IF data.term = c.s.current_term THEN ToFollower(c) ELSE c

\* ----------------------------------------------------------- Leader ----
\* len([filter(...)]): a list holding one filter object.
CommittedCount(s, index) == 1

\* update_commit_index without its comparison of terms: the highest index
\* that counts as replicated is committed, whatever the term of its entry.
UpdateCommitIndexAnyTerm(s) ==
    LET ok == {index \in (s.commit_index + 1)..LastLogIndex(s.log) :
                  IsMajority(s.id, CommittedCount(s, index) + 1)}
        committed_on_majority ==
            IF ok = {} THEN 0 ELSE CHOOSE i \in ok : \A j \in ok : j <= i
    IN  IF committed_on_majority > s.commit_index
        THEN [s EXCEPT !.commit_index = committed_on_majority]
        ELSE s

\* Leader.update_commit_index.
UpdateCommitIndex(s) ==
    LET ok == {index \in (s.commit_index + 1)..LastLogIndex(s.log) :
                  /\ IsMajority(s.id, CommittedCount(s, index) + 1)
                  /\ s.log.cache[index].term = s.current_term}
        committed_on_majority ==
            IF ok = {} THEN 0 ELSE CHOOSE i \in ok : \A j \in ok : j <= i
    IN  IF committed_on_majority > s.commit_index
        THEN [s EXCEPT !.commit_index = committed_on_majority]
        ELSE s

\* on_receive_append_entries_response without the floor of 1 under the
\* next_index it steps back.
LeaderOnReceiveAppendEntriesResponseUnclamped(c, self, data, sender) ==
    LET stale == c.s.role # "Leader"
        added == self.response_mapping \cup {<<data.request_id, sender>>}
        alive == IsMajority(c.s.id, Cardinality({x[1] : x \in added}) + 1)
        mapping == IF alive THEN {x \in added : x[1] # data.request_id} ELSE added
        s0 == IF stale
              THEN [c.s EXCEPT !.zombie_step_down = @ \/ alive]
              ELSE [c.s EXCEPT !.response_mapping = mapping]
        last == LastLogIndex(s0.log)
        s1 == IF data.success
              THEN UpdateCommitIndex(
                       IF data.last_log_index > s0.match_index[sender]
                       THEN [s0 EXCEPT !.next_index[sender] = last + 1,
                                       !.match_index[sender] = last]
                       ELSE s0)
              ELSE LET next_index == s0.next_index[sender]
                       prev_index == next_index - 1
                   IN  IF prev_index > data.last_log_index
                       THEN [s0 EXCEPT !.next_index[sender] = data.last_log_index + 1]
                       ELSE [s0 EXCEPT !.next_index[sender] = next_index - 1]
        d == [c EXCEPT !.s = s1, !.step_down_reset = alive]
    IN  IF last >= s1.next_index[sender]
        THEN RpcAppendEntriesTo(d, self.request_id, sender)
        ELSE d

\* `self` is the Leader object the handler runs on (its request_id and
\* response_mapping); `stale` says validate_term has demoted it.
LeaderOnReceiveAppendEntriesResponse(c, self, data, sender) ==
    LET stale == c.s.role # "Leader"
        added == self.response_mapping \cup {<<data.request_id, sender>>}
        alive == IsMajority(c.s.id, Cardinality({x[1] : x \in added}) + 1)
        mapping == IF alive THEN {x \in added : x[1] # data.request_id} ELSE added
        s0 == IF stale
              THEN [c.s EXCEPT !.zombie_step_down = @ \/ alive]
              ELSE [c.s EXCEPT !.response_mapping = mapping]
        last == LastLogIndex(s0.log)
        s1 == IF data.success
              THEN UpdateCommitIndex(
                       IF data.last_log_index > s0.match_index[sender]
                       THEN [s0 EXCEPT !.next_index[sender] = last + 1,
                                       !.match_index[sender] = last]
                       ELSE s0)
              ELSE LET next_index == s0.next_index[sender]
                       prev_index == next_index - 1
                   IN  IF prev_index > data.last_log_index
                       THEN [s0 EXCEPT !.next_index[sender] = data.last_log_index + 1]
                       ELSE [s0 EXCEPT !.next_index[sender] = Max(next_index - 1, 1)]
        d == [c EXCEPT !.s = s1, !.step_down_reset = alive]
    IN  IF last >= s1.next_index[sender]
        THEN RpcAppendEntriesTo(d, self.request_id, sender)
        ELSE d

\* --------------------------------------------------------- dispatch ----
\* State.request_handler: getattr(self.role, 'on_receive_' + type) and the
\* decorators that method carries in the class of self.role.
HandlerBody(c, self, data, sender) ==
    IF self.role = "Follower" /\ data.type = "request_vote"
    THEN FollowerOnReceiveRequestVote(c, data, sender)
    ELSE IF self.role = "Follower" /\ data.type = "append_entries"
    THEN FollowerOnReceiveAppendEntries(c, data, sender)
    ELSE IF self.role = "Candidate" /\ data.type = "request_vote_response"
    THEN CandidateOnReceiveRequestVoteResponse(c, self, data)
    ELSE IF self.role = "Candidate" /\ data.type = "append_entries"
    THEN CandidateOnReceiveAppendEntries(c, data)
    ELSE IF self.role = "Leader" /\ data.type = "append_entries_response"
    THEN LeaderOnReceiveAppendEntriesResponse(c, self, data, sender)
    ELSE c

\* Whether the method is wrapped in validate_commit_index.
CommitValidated(role, type) ==
    \/ type = "append_entries_response"
    \/ type = "append_entries" /\ role # "Candidate"

RequestHandler(self, data, sender) ==
    LET checked == ValidateTerm(Ctx(self), data, sender)
        ran == IF checked.go THEN HandlerBody(checked.c, self, data, sender)
               ELSE checked.c
    IN  IF CommitValidated(self.role, data.type) THEN ValidateCommitIndex(ran, self) ELSE ran

\* --------------------------------------------------------- actions -----
\* A fresh cluster: every State built and started on empty stores.
Fresh(bounds) ==
    /\ peer = [p \in bounds.servers |-> NewState(p, 0, <<>>, {}, {}, {})]
    /\ msgs = {}
    /\ issued = 0
    /\ restarts = 0
    /\ limit = bounds

\* limit.electors[t]: the peers whose election timer may open term t.
Electors(term) ==
    IF term \in DOMAIN limit.electors THEN limit.electors[term] ELSE {}

\* What the log of s holds, index by index.
Holds(s) == {<<i, s.log.cache[i]>> : i \in 1..Len(s.log.cache)}

\* The step of peer p ends in context c.
Commit(p, c) ==
    /\ Len(c.s.log.file) <= limit.max_file
    /\ peer' = [peer EXCEPT ![p] = [c.s EXCEPT !.stored = @ \cup Holds(c.s)]]
    /\ msgs' = msgs \cup c.out

\* A datagram reaches its destination (again).  limit.lost: the kinds of
\* datagram, by type and destination, that the network always drops.
Receive(m) ==
    /\ <<m.type, m.dst>> \notin limit.lost
    /\ Commit(m.dst, RequestHandler(peer[m.dst], m, m.src))
    /\ UNCHANGED <<issued, restarts, limit>>

\* Follower.heartbeat_timer fires: start_election.
FollowerTimeout(p) ==
    /\ peer[p].role = "Follower"
    /\ peer[p].current_term < limit.max_term
    /\ p \in Electors(peer[p].current_term + 1)
    /\ Commit(p, ToCandidate(Ctx(peer[p])))
    /\ UNCHANGED <<issued, restarts, limit>>

\* Candidate.election_timer wired to rpc_request_vote: the Candidate asks
\* again and keeps its candidacy.
CandidateTimeoutAsking(p) ==
    /\ peer[p].role = "Candidate"
    /\ Commit(p, RpcRequestVote(Ctx(peer[p])))
    /\ UNCHANGED <<issued, restarts, limit>>

\* Candidate.election_timer fires: state.to_follower.
CandidateTimeout(p) ==
    /\ peer[p].role = "Candidate"
    /\ Commit(p, ToFollower(Ctx(peer[p])))
    /\ UNCHANGED <<issued, restarts, limit>>

\* Leader.heartbeat_timer fires.
HeartbeatTick(p) ==
    /\ peer[p].role = "Leader"
    /\ peer[p].request_id < limit.max_request_id
    /\ Commit(p, Heartbeat(Ctx(peer[p])))
    /\ UNCHANGED <<issued, restarts, limit>>

\* Leader.step_down_timer fires, of the current Leader object or of an
\* earlier one that a handler reset after its demotion.
StepDown(p) ==
    /\ peer[p].role = "Leader" \/ peer[p].zombie_step_down
    /\ Commit(p, ToFollower(Ctx(peer[p])))
    /\ UNCHANGED <<issued, restarts, limit>>

\* Leader.execute_command up to its first await: the future and the entry
\* are built, and log.append_entry is handed to the thread pool.
NewCall(s, id) ==
    [call |-> id, stage |-> "append",
     entry |-> LogEntry(s.current_term, Command(id)),
     live |-> TRUE, request_id |-> 0, index |-> 0]

\* The call once the pool has run its append_entry on log; index is where
\* its entry went.
AfterAppend(call, log) ==
    [call EXCEPT !.stage = "register", !.index = LastLogIndex(log)]

\* Leader.execute_command from its first await to its last: the timer
\* reset, apply_future_dict[last_log_index] = future, rpc_append_entries.
\* A call whose Leader object was replaced writes to that object.
Resume(c, call) ==
    LET s == c.s
        key == LastLogIndex(s.log)
        left == [s EXCEPT !.calls = @ \ {call}]
    IN  IF call.live
        THEN RpcAppendEntries(
                 [c EXCEPT !.s = [left EXCEPT
                     !.apply_future_dict = Register(@, key, call.call),
                     !.registered = @ \cup {<<call.call, key, call.index>>}]],
                 s.request_id, Cluster(s.id))
        ELSE RpcAppendEntries(
                 [c EXCEPT !.s = [left EXCEPT !.zombie_heartbeat = TRUE]],
                 call.request_id, Cluster(s.id))

\* State.set_value -> Leader.execute_command, up to the await of the
\* future, with the pool running each job as soon as it is handed over.
ExecuteCommand(p) ==
    /\ peer[p].leader = p
    /\ issued < limit.max_commands
    /\ issued' = issued + 1
    /\ LET s == peer[p]
           call == NewCall(s, issued + 1)
           log == AppendItem(s.log, call.entry)
       IN  Commit(p, Resume(Ctx([s EXCEPT !.log = log]), AfterAppend(call, log)))
    /\ UNCHANGED <<restarts, limit>>

\* State.set_value -> Leader.execute_command reaches its first await.
CommandCall(p) ==
    /\ peer[p].leader = p
    /\ issued < limit.max_commands
    /\ issued' = issued + 1
    /\ Commit(p, Ctx([peer[p] EXCEPT !.calls = @ \cup {NewCall(peer[p], issued + 1)}]))
    /\ UNCHANGED <<restarts, limit>>

\* A pool thread runs the log.append_entry of a call.
CommandAppended(p) ==
    /\ \E call \in peer[p].calls :
          /\ call.stage = "append"
          /\ LET log == AppendItem(peer[p].log, call.entry)
             IN  Commit(p, Ctx([peer[p] EXCEPT
                     !.log = log,
                     !.calls = (@ \ {call}) \cup {AfterAppend(call, log)}]))
    /\ UNCHANGED <<issued, restarts, limit>>

\* The event loop resumes a call whose append_entry has returned.
CommandResumed(p) ==
    /\ \E call \in peer[p].calls :
          /\ call.stage = "register"
          /\ Commit(p, Resume(Ctx(peer[p]), call))
    /\ UNCHANGED <<issued, restarts, limit>>

\* The process of p ends and is started again on its files.
Restart(p) ==
    /\ restarts < limit.max_restarts
    /\ restarts' = restarts + 1
    /\ peer' = [peer EXCEPT ![p] = NewState(p, peer[p].current_term, peer[p].log.file,
                                            peer[p].led, peer[p].votes, peer[p].stored)]
    /\ UNCHANGED <<msgs, issued, limit>>

\* Whether the step of p that ends in context c is possible and changes
\* the state.
Changes(p, c) ==
    /\ Len(c.s.log.file) <= limit.max_file
    /\ \/ [c.s EXCEPT !.stored = @ \cup Holds(c.s)] # peer[p]
       \/ ~(c.out \subseteq msgs)

\* ENABLED <<\E m \in msgs : Receive(m)>>_vars: some datagram, delivered
\* now, changes the state.
DeliveryPending ==
    \E m \in msgs : /\ <<m.type, m.dst>> \notin limit.lost
                    /\ Changes(m.dst, RequestHandler(peer[m.dst], m, m.src))

\* ENABLED <<\E p \in DOMAIN peer : ExecuteCommand(p)>>_vars: a client
\* write can be taken (the step always changes issued).
CommandPending ==
    \E p \in DOMAIN peer :
        /\ peer[p].leader = p
        /\ issued < limit.max_commands
        /\ LET call == NewCall(peer[p], issued + 1)
               log == AppendItem(peer[p].log, call.entry)
           IN  Len(Resume(Ctx([peer[p] EXCEPT !.log = log]),
                          AfterAppend(call, log)).s.log.file) <= limit.max_file

\* --------------------------------------------------- specifications ---
\* Elections in a cluster of three: every peer may open term 1, and one
\* peer may be restarted.  No client writes.
NextElection ==
    \/ \E m \in msgs : Receive(m)
    \/ \E p \in DOMAIN peer : FollowerTimeout(p)
    \/ \E p \in DOMAIN peer : CandidateTimeout(p)
    \/ \E p \in DOMAIN peer : StepDown(p)
    \/ \E p \in DOMAIN peer : Restart(p)

InitElection ==
    Fresh([servers |-> {"A", "B", "C"},
           electors |-> [t \in 1..ElectMaxTerm |-> {"A", "B", "C"}],
           max_term |-> ElectMaxTerm, max_restarts |-> ElectMaxRestarts,
           max_commands |-> 0, max_request_id |-> 1, max_file |-> 0, lost |-> {}])

SpecElection == InitElection /\ [][NextElection]_vars

\* Elections in a cluster of two over several terms, with a restart.
InitTerms ==
    Fresh([servers |-> {"A", "B"},
           electors |-> [t \in 1..TermsMaxTerm |-> {"A", "B"}],
           max_term |-> TermsMaxTerm, max_restarts |-> TermsMaxRestarts,
           max_commands |-> 0, max_request_id |-> 1, max_file |-> 0, lost |-> {}])

SpecTerms == InitTerms /\ [][NextElection]_vars

\* Replication in a cluster of two: A opens term 1, and once elected takes
\* client writes and sends heartbeats.
NextReplication ==
    \/ \E m \in msgs : Receive(m)
    \/ \E p \in DOMAIN peer : FollowerTimeout(p)
    \/ \E p \in DOMAIN peer : CandidateTimeout(p)
    \/ \E p \in DOMAIN peer : HeartbeatTick(p)
    \/ \E p \in DOMAIN peer : StepDown(p)
    \/ \E p \in DOMAIN peer : ExecuteCommand(p)

InitReplication ==
    Fresh([servers |-> {"A", "B"},
           electors |-> <<{"A"}>>,
           max_term |-> 1, max_restarts |-> 0,
           max_commands |-> ReplMaxCommands, max_request_id |-> ReplMaxRequestId,
           max_file |-> ReplMaxFile, lost |-> {}])

SpecReplication == InitReplication /\ [][NextReplication]_vars

\* Two leaders in a cluster of two: A opens term 1, B opens term 2, and
\* whoever leads takes client writes.  No heartbeat tick after the first.
NextWrites ==
    \/ \E m \in msgs : Receive(m)
    \/ \E p \in DOMAIN peer : FollowerTimeout(p)
    \/ \E p \in DOMAIN peer : CandidateTimeout(p)
    \/ \E p \in DOMAIN peer : StepDown(p)
    \/ \E p \in DOMAIN peer : ExecuteCommand(p)

InitTwoLeaders ==
    Fresh([servers |-> {"A", "B"},
           electors |-> <<{"A"}, {"B"}>>,
           max_term |-> 2, max_restarts |-> 0,
           max_commands |-> TwoMaxCommands, max_request_id |-> 1,
           max_file |-> TwoMaxFile, lost |-> {}])

SpecTwoLeaders == InitTwoLeaders /\ [][NextWrites]_vars

\* A longer log in a cluster of two: A opens term 1 and takes client
\* writes.  No heartbeat tick after the first.
InitDeepLog ==
    Fresh([servers |-> {"A", "B"},
           electors |-> <<{"A"}>>,
           max_term |-> 1, max_restarts |-> 0,
           max_commands |-> DeepMaxCommands, max_request_id |-> 1,
           max_file |-> DeepMaxFile, lost |-> {}])

SpecDeepLog == InitDeepLog /\ [][NextWrites]_vars

\* A change of leader in a cluster of two whose network drops every
\* AppendEntriesResponse and every AppendEntries sent to A: A opens term 1,
\* B opens term 2, and whoever leads takes client writes.
InitLeaderAppend ==
    Fresh([servers |-> {"A", "B"},
           electors |-> <<{"A"}, {"B"}>>,
           max_term |-> 2, max_restarts |-> 0,
           max_commands |-> LeadMaxCommands, max_request_id |-> 1,
           max_file |-> LeadMaxFile,
           lost |-> {<<"append_entries_response", "A">>,
                     <<"append_entries_response", "B">>,
                     <<"append_entries", "A">>}])

SpecLeaderAppend == InitLeaderAppend /\ [][NextWrites]_vars

\* Client writes that overlap, in a cluster of two that A leads: a call to
\* set_value, the pool's append and the call's resumption are steps of
\* their own.
NextOverlap ==
    \/ \E m \in msgs : Receive(m)
    \/ \E p \in DOMAIN peer : FollowerTimeout(p)
    \/ \E p \in DOMAIN peer : CandidateTimeout(p)
    \/ \E p \in DOMAIN peer : StepDown(p)
    \/ \E p \in DOMAIN peer : CommandCall(p)
    \/ \E p \in DOMAIN peer : CommandAppended(p)
    \/ \E p \in DOMAIN peer : CommandResumed(p)

InitOverlap ==
    Fresh([servers |-> {"A", "B"},
           electors |-> <<{"A"}>>,
           max_term |-> 1, max_restarts |-> 0,
           max_commands |-> OverMaxCommands, max_request_id |-> 1,
           max_file |-> OverMaxFile, lost |-> {}])

SpecOverlap == InitOverlap /\ [][NextOverlap]_vars

\* Client writes in a cluster of three with a stable leader: only A's
\* election timer fires, no step-down timer fires, no datagram is lost and
\* every step that can change the state is eventually taken.
NextProposal ==
    \/ \E m \in msgs : Receive(m)
    \/ \E p \in DOMAIN peer : FollowerTimeout(p)
    \/ \E p \in DOMAIN peer : ExecuteCommand(p)

InitProposal ==
    Fresh([servers |-> {"A", "B", "C"},
           electors |-> <<{"A"}>>,
           max_term |-> 1, max_restarts |-> 0,
           max_commands |-> PropMaxCommands, max_request_id |-> 1,
           max_file |-> PropMaxFile, lost |-> {}])

\* Weak fairness of deliveries and of client writes is stated with its
\* ENABLED written out as a state predicate: FairDelivery is
\* WF_vars(\E m \in msgs : Receive(m)), FairWrites is
\* WF_vars(\E p \in DOMAIN peer : ExecuteCommand(p)).
FairDelivery ==
    []<>(~DeliveryPending) \/ []<><<\E m \in msgs : Receive(m)>>_vars

FairWrites ==
    []<>(~CommandPending) \/ []<><<\E p \in DOMAIN peer : ExecuteCommand(p)>>_vars

SpecProposal ==
    /\ InitProposal
    /\ [][NextProposal]_vars
    /\ WF_vars(\E p \in DOMAIN peer : FollowerTimeout(p))
    /\ FairDelivery
    /\ FairWrites

\* ------------------------------------------------------------ claims ---
\* C1 (election safety): for every term T, at most one peer has ever
\* entered the Leader role while its current_term was T.
C1_ElectionSafety ==
    \A p, q \in DOMAIN peer : p # q => peer[p].led \cap peer[q].led = {}

\* C2 (at most one vote per term): for every peer and term T, the
\* candidates it granted a vote to in T, with itself if it self-voted in T,
\* are at most one.
C2_OneVotePerTerm ==
    \A p \in DOMAIN peer : \A v, w \in peer[p].votes : v[1] = w[1] => v[2] = w[2]

\* C3 (monotone terms): no step, a role transition or a restart included,
\* lowers the current_term of a peer.
C3_MonotoneTerms ==
    [][\A p \in DOMAIN peer : peer'[p].current_term >= peer[p].current_term]_vars

\* A peer that led term 1 is a Follower of the highest term, and a process
\* has been restarted.
C3_TermsKept ==
    /\ restarts > 0
    /\ \E p \in DOMAIN peer :
           /\ peer[p].role = "Follower"
           /\ peer[p].current_term = TermsMaxTerm
           /\ 1 \in peer[p].led

Log(p) == peer[p].log.cache

\* C4 (state-machine safety): two peers that have both applied index i
\* passed the same command to state_machine.apply for it.
C4_StateMachineSafety ==
    \A p, q \in DOMAIN peer :
        \A i \in 1..Min(peer[p].last_applied, peer[q].last_applied) :
            peer[p].applied[i] = peer[q].applied[i]

C6_CommitRequiresMajority ==
    \A p \in DOMAIN peer :
        \A i \in 1..Min(peer[p].commit_index, Len(Log(p))) :
            2 * Cardinality({q \in DOMAIN peer : <<i, Log(p)[i]>> \in peer[q].stored})
                > Cardinality(DOMAIN peer)

C10_ApplyInOrder ==
    \A p \in DOMAIN peer : peer[p].apply_in_order

\* C11 (restart preserves the vote): the restart of a process leaves the
\* voted_for of every Follower that has granted a vote as it was, so the
\* vote still stands when State is rebuilt and Follower.start has run.
C11_RestartPreservesVote ==
    [][restarts' # restarts
          => \A p \in DOMAIN peer :
                 (peer[p].role = "Follower" /\ peer[p].voted_for # Nil)
                     => peer'[p].voted_for = peer[p].voted_for]_vars

\* C12 (futures of overlapping execute_command calls): every call is
\* registered in apply_future_dict under the index at which its own entry
\* was appended.
C12_FutureUnderOwnIndex ==
    \A p \in DOMAIN peer : \A r \in peer[p].registered : r[2] = r[3]

\* C13 (liveness of a proposal): every execute_command call made on the
\* leader is eventually applied to the leader's state machine and has its
\* future resolved.
C13_ProposalApplied ==
    \A k \in 1..PropMaxCommands :
        (issued >= k) ~> (\E p \in DOMAIN peer :
                              /\ k \in peer[p].resolved
                              /\ \E i \in 1..peer[p].last_applied :
                                    peer[p].applied[i] = Command(k))

\* ------------------------------------------------ election liveness ----
\* Elections in a cluster of three fresh Followers with no loss: every
\* election timer that is running eventually fires and every datagram that
\* can change the state is eventually delivered.
NextVoting ==
    \/ \E m \in msgs : Receive(m)
    \/ \E p \in DOMAIN peer : FollowerTimeout(p)
    \/ \E p \in DOMAIN peer : CandidateTimeout(p)

InitVoting ==
    Fresh([servers |-> {"A", "B", "C"},
           electors |-> [t \in 1..VoteMaxTerm |-> {"A", "B", "C"}],
           max_term |-> VoteMaxTerm, max_restarts |-> 0,
           max_commands |-> 0, max_request_id |-> 1, max_file |-> 0, lost |-> {}])

SpecVoting ==
    /\ InitVoting
    /\ [][NextVoting]_vars
    /\ \A p \in Server : WF_vars(FollowerTimeout(p))
    /\ \A p \in Server : WF_vars(CandidateTimeout(p))
    /\ FairDelivery

CandidacyEnded(p) ==
    \E v \in peer[p].votes :
        /\ v[2] = p
        /\ v[1] \notin peer[p].led
        /\ ~(peer[p].role = "Candidate" /\ peer[p].current_term = v[1])

LeaderLog ==
    [i \in 1..RepairLogLen |-> LogEntry(IF i = 1 THEN 1 ELSE 3, Command(i))]

FollowerLogs ==
    {SubSeq(LeaderLog, 1, n) : n \in 0..(RepairLogLen - 1)}
    \cup {<<LeaderLog[1]>> \o [i \in 1..n |-> LogEntry(2, Command(RepairLogLen + i))] :
            n \in 1..RepairDivergence}

Started(bounds, current_term, files) ==
    /\ peer = [p \in bounds.servers |->
                 NewState(p, current_term, PackAll(files[p]), {}, {}, {})]
    /\ msgs = {}
    /\ issued = 0
    /\ restarts = 0
    /\ limit = bounds

NextRepair ==
    \/ \E m \in msgs : Receive(m)
    \/ \E p \in DOMAIN peer : FollowerTimeout(p)
    \/ \E p \in DOMAIN peer : HeartbeatTick(p)

InitRepair ==
    \E log \in FollowerLogs :
        Started([servers |-> {"A", "B"},
                 electors |-> [t \in {4} |-> {"A"}],
                 max_term |-> 4, max_restarts |-> 0,
                 max_commands |-> 0, max_request_id |-> RepairMaxRequestId,
                 max_file |-> RepairMaxFile, lost |-> {}],
                3, [p \in {"A", "B"} |-> IF p = "B" THEN log ELSE LeaderLog])

\* ENABLED <<\E p \in DOMAIN peer : HeartbeatTick(p)>>_vars.
HeartbeatPending ==
    \E p \in DOMAIN peer :
        /\ peer[p].role = "Leader"
        /\ peer[p].request_id < limit.max_request_id
        /\ Changes(p, Heartbeat(Ctx(peer[p])))

FairHeartbeat ==
    []<>(~HeartbeatPending) \/ []<><<\E p \in DOMAIN peer : HeartbeatTick(p)>>_vars

\* ENABLED <<\E m \in msgs : m.dst = p /\ Receive(m)>>_vars: some
\* datagram for p, delivered now, changes the state.
DeliveryPendingTo(p) ==
    \E m \in msgs : /\ m.dst = p
                    /\ <<m.type, m.dst>> \notin limit.lost
                    /\ Changes(m.dst, RequestHandler(peer[m.dst], m, m.src))

\* Weak fairness of the deliveries to p: each peer reads its own socket.
FairDeliveryTo(p) ==
    []<>(~DeliveryPendingTo(p)) \/ []<><<\E m \in msgs : m.dst = p /\ Receive(m)>>_vars

SpecRepair ==
    /\ InitRepair
    /\ [][NextRepair]_vars
    /\ WF_vars(\E p \in DOMAIN peer : FollowerTimeout(p))
    /\ \A p \in {"A", "B"} : FairDeliveryTo(p)
    /\ FairHeartbeat

NextPartition ==
    \/ \E m \in msgs : Receive(m)
    \/ \E p \in DOMAIN peer : FollowerTimeout(p)
    \/ \E p \in DOMAIN peer : StepDown(p)
    \/ \E p \in DOMAIN peer : ExecuteCommand(p)

InitPartition ==
    Fresh([servers |-> {"A", "B", "C"},
           electors |-> [t \in 1..PartMaxTerm |-> {"A"}],
           max_term |-> PartMaxTerm, max_restarts |-> 0,
           max_commands |-> PartMaxCommands, max_request_id |-> 1,
           max_file |-> PartMaxCommands,
           lost |-> {"append_entries", "append_entries_response"} \X {"A", "B", "C"}])

\* The step_down_timer of a Leader fires unless a majority of responses
\* resets it first.
SpecPartition ==
    /\ InitPartition
    /\ [][NextPartition]_vars
    /\ \A p \in Server : WF_vars(StepDown(p))

\* C16 (step-down of a partitioned leader): a Leader that gets no
\* AppendEntriesResponse eventually is Follower with leader None, and the
\* step from Leader to Follower leaves its current_term unchanged.
C16_PartitionedLeaderStepsDown ==
    /\ \A p \in Server :
          (p \in DOMAIN peer /\ peer[p].role = "Leader")
              ~> (peer[p].role = "Follower" /\ peer[p].leader = Nil)
    /\ [][\A p \in DOMAIN peer :
            (peer[p].role = "Leader" /\ peer'[p].role # "Leader") =>
                /\ peer'[p].role = "Follower"
                /\ peer'[p].leader = Nil
                /\ peer'[p].current_term = peer[p].current_term]_vars

\* A has led a term, heard nothing, and is Follower again in that term.
C16_SteppedDown ==
    \E p \in DOMAIN peer :
        /\ peer[p].role = "Follower"
        /\ peer[p].leader = Nil
        /\ peer[p].current_term \in peer[p].led
        /\ ~(\E m \in msgs : m.type = "append_entries_response")

\* -------------------------------------------------------- log store ----
\* A FilePersistentLog on its own, on an empty file: limit holds the
\* sequence xs and the index k of the run, issued counts the calls made,
\* and peer["A"] is the store with the outcome of the read.
StoreItems == {LogEntry(1, Command(v)) : v \in 1..StoreMaxValue}

RECURSIVE SeqsUpTo(_, _)
SeqsUpTo(items, n) ==
    IF n = 0 THEN {<<>>}
    ELSE LET shorter == SeqsUpTo(items, n - 1)
         IN  shorter \cup {Append(xs, x) : xs \in shorter, x \in items}

\* get_items() with its defaults: [st, ok, items]; ok = FALSE is ValueError.
ReadAll(st) ==
    LET r == IF 1 > Len(st.cache) THEN Refresh(st) ELSE st
    IN  [st |-> r, ok |-> 1 <= Len(r.cache), items |-> r.cache]

InitStore ==
    /\ \E xs \in SeqsUpTo(StoreItems, StoreMaxLen) : \E k \in 0..Len(xs) :
          limit = [xs |-> xs, k |-> k]
    /\ peer = [p \in {"A"} |-> [log |-> Refresh([cache |-> <<>>, file |-> <<>>]),
                                read |-> [ok |-> FALSE, items |-> <<>>]]]
    /\ msgs = {}
    /\ issued = 0
    /\ restarts = 0

StoreAppend ==
    /\ issued = 0
    /\ issued' = 1
    /\ peer' = [peer EXCEPT !["A"].log = AppendItems(@, limit.xs)]
    /\ UNCHANGED <<msgs, restarts, limit>>

StoreErase ==
    /\ issued = 1
    /\ issued' = 2
    /\ peer' = [peer EXCEPT !["A"].log = EraseFrom(@, limit.k)]
    /\ UNCHANGED <<msgs, restarts, limit>>

StoreRead ==
    /\ issued = 2
    /\ issued' = 3
    /\ LET got == ReadAll(peer["A"].log)
       IN  peer' = [peer EXCEPT !["A"].log = got.st,
                                !["A"].read = [ok |-> got.ok, items |-> got.items]]
    /\ UNCHANGED <<msgs, restarts, limit>>

NextStore == StoreAppend \/ StoreErase \/ StoreRead

SpecStore == InitStore /\ [][NextStore]_vars

\* C17 (round trip of the log store): after append_items(xs) on a fresh
\* log and erase_from(k), reading the whole log returns the first k items
\* of xs (the ValueError that get_items raises on an empty log counts as
\* no items).
C17_EraseRoundTrip ==
    issued = 3 => peer["A"].read.items = SubSeq(limit.xs, 1, limit.k)

\* C18 (batch cap): no AppendEntries a Leader has sent carries more than
\* APPEND_ENTRIES_MAX_NUM entries.
C18_BatchCap ==
    \A m \in msgs :
        m.type = "append_entries" => Len(m.entries) <= APPEND_ENTRIES_MAX_NUM

\* ------------------------------------------------- single-node cluster -
\* A peer whose cluster is empty: its election timers fire, and its
\* process may be restarted.  No datagram is ever sent.
NextSingle ==
    \/ \E p \in DOMAIN peer : FollowerTimeout(p)
    \/ \E p \in DOMAIN peer : CandidateTimeout(p)
    \/ \E p \in DOMAIN peer : Restart(p)

InitSingle ==
    Fresh([servers |-> {"A"},
           electors |-> [t \in 1..SingleMaxTerm |-> {"A"}],
           max_term |-> SingleMaxTerm, max_restarts |-> SingleMaxRestarts,
           max_commands |-> 1, max_request_id |-> 1, max_file |-> 1, lost |-> {}])

SpecSingle ==
    /\ InitSingle
    /\ [][NextSingle]_vars
    /\ WF_vars(\E p \in DOMAIN peer : FollowerTimeout(p))
    /\ WF_vars(\E p \in DOMAIN peer : CandidateTimeout(p))

\* C19 (single-node cluster): the lone peer eventually is Leader, and a
\* command it has accepted is eventually committed and applied.
C19_LonePeerLeads ==
    /\ <>(peer["A"].role = "Leader")
    /\ \A k \in 1..1 :
          (issued >= k) ~> (\E i \in 1..peer["A"].last_applied :
                               /\ i <= peer["A"].commit_index
                               /\ peer["A"].applied[i] = Command(k))

\* ------------------------------------------------- writes on any peer --
\* leader_required's test with "is not None" in place of isinstance(...,
\* Leader): any known leader lets the call through.
LeaderKnown(s) == s.leader # Nil

\* leader_required's test: cls.leader is a Leader object, that is, the
\* role object of this very peer.
LeaderRequired(s) == s.leader = s.id

\* Leader.execute_command up to the await of its future, with the pool
\* running each job as soon as it is handed over.
Executed(s, id) ==
    LET call == NewCall(s, id)
        log == AppendItem(s.log, call.entry)
    IN  Resume(Ctx([s EXCEPT !.log = log]), AfterAppend(call, log))

\* leader_required after its wait: RuntimeError, or set_value's call of
\* cls.leader.execute_command, which builds the entry at once.
Checked(s, id) ==
    IF LeaderRequired(s)
    THEN Executed([s EXCEPT !.built = @ \cup {<<id, s.role>>}], id)
    ELSE Ctx([s EXCEPT !.rejected = @ \cup {id}])

\* State.set_value is called on p: wait_for_election_success suspends the
\* call on a new cls.leader_future when no leader is known.
SetValueCall(p) ==
    /\ issued < limit.max_commands
    /\ issued' = issued + 1
    /\ LET id == issued + 1
           future == [call |-> id, done |-> FALSE]
           s == [peer[p] EXCEPT !.called = @ \cup {<<id, peer[p].role, peer[p].leader>>}]
       IN  Commit(p, IF s.leader = Nil
                     THEN Ctx([s EXCEPT !.leader_future = {future},
                                        !.waiting = @ \cup {future}])
                     ELSE Checked(s, id))
    /\ UNCHANGED <<restarts, limit>>

\* A call whose future has its result goes on: cls.leader_future = None,
\* then leader_required's test.
SetValueResumed(p) ==
    /\ \E future \in peer[p].waiting :
          /\ future.done
          /\ Commit(p, Checked([peer[p] EXCEPT !.waiting = @ \ {future},
                                               !.leader_future = {}],
                               future.call))
    /\ UNCHANGED <<issued, restarts, limit>>

\* Clients write to either peer of a cluster of two in which A's election
\* timer fires; A may step down.
NextClient ==
    \/ \E m \in msgs : Receive(m)
    \/ \E p \in DOMAIN peer : FollowerTimeout(p)
    \/ \E p \in DOMAIN peer : CandidateTimeout(p)
    \/ \E p \in DOMAIN peer : StepDown(p)
    \/ \E p \in DOMAIN peer : SetValueCall(p)
    \/ \E p \in DOMAIN peer : SetValueResumed(p)

InitClient ==
    Fresh([servers |-> {"A", "B"},
           electors |-> <<{"A"}>>,
           max_term |-> 1, max_restarts |-> 0,
           max_commands |-> ClientMaxCommands, max_request_id |-> 1,
           max_file |-> ClientMaxCommands, lost |-> {}])

SpecClient == InitClient /\ [][NextClient]_vars

\* C20 (NotLeader): a set_value call made on a peer that is not Leader and
\* knows another peer as leader ends in an error and its command is in no
\* log; every entry that set_value builds is built by a peer in the Leader
\* role, and every command held in a log was built that way.
C20_NotLeader ==
    /\ \A p \in DOMAIN peer : \A c \in peer[p].called :
          (c[2] # "Leader" /\ c[3] \notin {Nil, p}) =>
              /\ c[1] \in peer[p].rejected
              /\ \A q \in DOMAIN peer : \A e \in peer[q].stored :
                    e[2].command # Command(c[1])
    /\ \A p \in DOMAIN peer : \A b \in peer[p].built : b[2] = "Leader"
    /\ \A q \in DOMAIN peer : \A e \in peer[q].stored :
          \E p \in DOMAIN peer : \E b \in peer[p].built :
              e[2].command = Command(b[1])

\* B, a Follower that knows A as leader, was asked to write and refused,
\* and A has taken a write of its own.
C20_Refused ==
    /\ \E c \in peer["B"].called :
          c[2] = "Follower" /\ c[3] = "A" /\ c[1] \in peer["B"].rejected
    /\ peer["A"].built # {}

\* ------------------------------------------------- errors of a handler --
\* What the loop of validate_commit_index raises when it runs over
\* not_applied..stop on s: "IndexError" from log[not_applied], "TypeError"
\* from state_machine.apply, or Nil when the loop completes.
RECURSIVE ApplyError(_, _, _)
ApplyError(s, not_applied, stop) ==
    IF not_applied > stop THEN Nil
    ELSE LET got == GetItem(s.log, not_applied)
         IN  IF ~got.ok THEN "IndexError"
             ELSE LET done == SmApply(s.state_machine, got.item.command)
                  IN  IF ~done.ok THEN "TypeError"
                      ELSE ApplyError([s EXCEPT !.log = got.st,
                                                !.state_machine = done.cache,
                                                !.last_applied = @ + 1],
                                      not_applied + 1, stop)

\* The error State.request_handler lets through to datagram_received when
\* the role object self handles data, or Nil.
HandlerError(self, data, sender) ==
    LET checked == ValidateTerm(Ctx(self), data, sender)
        ran == IF checked.go THEN HandlerBody(checked.c, self, data, sender)
               ELSE checked.c
    IN  IF CommitValidated(self.role, data.type) /\ ran.s.commit_index > ran.s.last_applied
        THEN ApplyError(ran.s, ran.s.last_applied + 1, ran.s.commit_index)
        ELSE Nil

\* C21 (handlers never raise): no datagram sent so far, delivered now to
\* its destination in the state that peer is in, makes the handler raise.
C21_HandlersComplete ==
    \A m \in msgs :
        <<m.type, m.dst>> \notin limit.lost => HandlerError(peer[m.dst], m, m.src) = Nil

\* ------------------------------------------------- a cluster of five ---
\* An election in a cluster of five fresh Followers: only A's election
\* timer fires, and datagrams may be lost or delivered more than once.
InitFive ==
    Fresh([servers |-> {"A", "B", "C", "D", "E"},
           electors |-> <<{"A"}>>,
           max_term |-> 1, max_restarts |-> 0,
           max_commands |-> 0, max_request_id |-> 1, max_file |-> 0, lost |-> {}])

SpecFive == InitFive /\ [][NextVoting]_vars

\* The peers whose vote for p in term is on record.
Granters(p, term) == {q \in Cluster(p) : <<term, p>> \in peer[q].votes}

\* C22 (duplicates in the vote count): the vote_count of a Candidate, and
\* the count with which a Candidate becomes Leader, is at most 1 plus the
\* number of distinct peers that granted it a vote in its current term.
C22_VotesCountedOnce ==
    [][\A p \in DOMAIN peer :
          /\ peer'[p].role = "Candidate" =>
                peer'[p].vote_count
                    <= 1 + Cardinality(Granters(p, peer'[p].current_term))
          /\ (peer[p].role = "Candidate" /\ peer'[p].role = "Leader") =>
                peer[p].vote_count + 1
                    <= 1 + Cardinality(Granters(p, peer[p].current_term))]_vars

\* C23 (vote rule): a Follower that handles a RequestVote of its own
\* current_term answers vote_granted = TRUE exactly when voted_for is None
\* or the candidate and the candidate's log is at least as up-to-date as
\* its own; when it does not grant, its voted_for is unchanged.
C23_VoteRule ==
    \A m \in msgs :
        (/\ m.type = "request_vote"
         /\ peer[m.dst].role = "Follower"
         /\ m.term = peer[m.dst].current_term) =>
            LET s == peer[m.dst]
                c == RequestHandler(s, m, m.src)
                both == /\ s.voted_for = Nil \/ s.voted_for = m.candidate_id
                        /\ UpToDate(m, s.log)
            IN  /\ \A r \in c.out : r.vote_granted = both
                /\ ~both => c.s.voted_for = s.voted_for

\* ------------------------------------------------ majority arithmetic --
\* State.is_majority on its own: a cluster of n peers in total, one of
\* which (limit.self) is asked whether limit.count is a majority; the
\* answer is kept in peer[limit.self].answer.
Hosts(n) == {<<"A", "B", "C", "D", "E", "F">>[i] : i \in 1..n}

InitMajority ==
    /\ \E n \in 1..MajorityMaxPeers : \E p \in Hosts(n) : \E count \in 0..n :
          /\ peer = [q \in Hosts(n) |-> [id |-> q, answer |-> Nil]]
          /\ limit = [self |-> p, count |-> count]
    /\ msgs = {}
    /\ issued = 0
    /\ restarts = 0

MajorityAsked ==
    /\ issued = 0
    /\ issued' = 1
    /\ peer' = [peer EXCEPT ![limit.self].answer = IsMajority(limit.self, limit.count)]
    /\ UNCHANGED <<msgs, restarts, limit>>

NextMajority == MajorityAsked

SpecMajority == InitMajority /\ [][NextMajority]_vars

\* C24 (majority arithmetic): in a cluster of n peers in total,
\* is_majority(c) is TRUE exactly when 2 * c > n.
C24_StrictMajority ==
    issued = 1 =>
        (peer[limit.self].answer = (2 * limit.count > Cardinality(DOMAIN peer)))

\* C25 (stale vote responses): a RequestVoteResponse of a term below the
\* Candidate's current_term, handled by that Candidate, leaves its
\* vote_count and its role as they were.
C25_StaleVoteDropped ==
    \A m \in msgs :
        (/\ m.type = "request_vote_response"
         /\ peer[m.dst].role = "Candidate"
         /\ m.term < peer[m.dst].current_term) =>
            LET c == RequestHandler(peer[m.dst], m, m.src)
            IN  /\ c.s.vote_count = peer[m.dst].vote_count
                /\ c.s.role = "Candidate"

\* C26 (higher-term rule): a datagram of a term above the current_term of
\* its destination, handled in any role, leaves that peer a Follower whose
\* current_term is at least the datagram's term and whose known leader is
\* not itself.
C26_HigherTermDemotes ==
    \A m \in msgs :
        m.term > peer[m.dst].current_term =>
            LET c == RequestHandler(peer[m.dst], m, m.src)
            IN  /\ c.s.current_term >= m.term
                /\ c.s.role = "Follower"
                /\ c.s.leader # m.dst

\* A Leader has a datagram of a higher term to handle, and handling it
\* makes the peer a Follower of that term.
C26_Demoted ==
    \E m \in msgs :
        /\ peer[m.dst].role = "Leader"
        /\ m.term > peer[m.dst].current_term
        /\ LET c == RequestHandler(peer[m.dst], m, m.src)
           IN  c.s.role = "Follower" /\ c.s.current_term = m.term

\* C27 (voted_for is reset when the term advances): once validate_term has
\* raised a peer's current_term to the term of a datagram, and before the
\* handler of the datagram's type runs, voted_for is None; and a voted_for
\* that is not None is a vote of the peer's current term.
C27_VoteResetWithTerm ==
    /\ \A m \in msgs :
          m.term > peer[m.dst].current_term =>
              ValidateTerm(Ctx(peer[m.dst]), m, m.src).c.s.voted_for = Nil
    /\ \A p \in DOMAIN peer :
          peer[p].voted_for # Nil =>
              <<peer[p].current_term, peer[p].voted_for>> \in peer[p].votes

\* C29 (timer ownership): no timer of a role object that the peer has
\* left is active: neither the step_down_timer nor the heartbeat_timer of
\* a Leader object that was replaced has been started again.
C29_TimersOfCurrentRole ==
    \A p \in DOMAIN peer : ~peer[p].zombie_step_down /\ ~peer[p].zombie_heartbeat

CatchUpLog ==
    [i \in 1..CatchUpLeaderLen |-> LogEntry(IF i = 1 THEN 1 ELSE 3, Command(i))]

NextCatchUp ==
    \/ \E m \in msgs : Receive(m)
    \/ \E p \in DOMAIN peer : FollowerTimeout(p)
    \/ \E p \in DOMAIN peer : ExecuteCommand(p)

InitCatchUp ==
    Started([servers |-> {"A", "B", "C"},
             electors |-> [t \in {4} |-> {"A"}],
             max_term |-> 4, max_restarts |-> 0,
             max_commands |-> CatchUpMaxCommands,
             max_request_id |-> 1,
             max_file |-> CatchUpMaxFile, lost |-> {}],
            3, [p \in {"A", "B", "C"} |->
                   IF p = "B" THEN SubSeq(CatchUpLog, 1, CatchUpLogLen)
                              ELSE CatchUpLog])

SpecCatchUp == InitCatchUp /\ [][NextCatchUp]_vars

C33_CandidateYields ==
    \A m \in msgs :
        (/\ m.type = "append_entries"
         /\ <<m.type, m.dst>> \notin limit.lost
         /\ peer[m.dst].role = "Candidate"
         /\ m.term = peer[m.dst].current_term) =>
            LET c == RequestHandler(peer[m.dst], m, m.src)
            IN  /\ c.s.role = "Follower"
                /\ c.s.leader = m.src
                /\ \E r \in c.out : /\ r.type = "append_entries_response"
                                    /\ r.dst = m.src
                                    /\ r.request_id = m.request_id

\* Heartbeats in a cluster of five: A opens term 1 and, once elected, its
\* heartbeat timer fires; every AppendEntries to C, D and E is lost.
NextBeats ==
    \/ \E m \in msgs : Receive(m)
    \/ \E p \in DOMAIN peer : FollowerTimeout(p)
    \/ \E p \in DOMAIN peer : HeartbeatTick(p)

InitBeats ==
    Fresh([servers |-> {"A", "B", "C", "D", "E"},
           electors |-> <<{"A"}>>,
           max_term |-> 1, max_restarts |-> 0,
           max_commands |-> 0, max_request_id |-> BeatsMaxRequestId,
           max_file |-> 0,
           lost |-> {<<"append_entries", p>> : p \in {"C", "D", "E"}}])

SpecBeats == InitBeats /\ [][NextBeats]_vars

\* The peers on record at Leader s as having answered request_id.
Responders(s, request_id) ==
    {x[2] : x \in {y \in s.response_mapping : y[1] = request_id}}

\* C34 (quorum liveness check): a Leader that handles an
\* AppendEntriesResponse resets its step_down_timer only if the peers that
\* have answered the request_id of that response, the sender included,
\* together with the Leader itself are more than half of the cluster.
C34_QuorumOfOneRequest ==
    \A m \in msgs :
        (/\ m.type = "append_entries_response"
         /\ <<m.type, m.dst>> \notin limit.lost
         /\ peer[m.dst].role = "Leader") =>
            LET s == peer[m.dst]
                c == RequestHandler(s, m, m.src)
                answered == Responders(s, m.request_id) \cup {m.src, m.dst}
            IN  c.step_down_reset =>
                    2 * Cardinality(answered) > Cardinality(DOMAIN peer)

C36_CommitsOwnTerm ==
    [][\A p \in DOMAIN peer :
         (/\ peer[p].role = "Leader"
          /\ peer'[p].commit_index # peer[p].commit_index) =>
             /\ peer'[p].commit_index \in 1..Len(peer'[p].log.cache)
             /\ peer'[p].log.cache[peer'[p].commit_index].term
                    = peer'[p].current_term]_vars

\* A leads term 4 with the acknowledgement of a peer that holds all its
\* entries of term 3 on record, and has committed index CatchUpLeaderLen + 1,
\* the entry of its own term, passing over the entries of term 3.
C36_CommittedOwnTerm ==
    /\ peer["A"].role = "Leader"
    /\ peer["A"].match_index["C"] > 0
    /\ peer["A"].commit_index = CatchUpLeaderLen + 1
    /\ peer["A"].log.cache[CatchUpLeaderLen].term = 3
    /\ peer["A"].log.cache[CatchUpLeaderLen + 1].term = 4

\* Heartbeats with the thread pool in view, in a cluster of three led by
\* A.  Leader.heartbeat runs on the event loop: it increments request_id
\* and hands rpc_append_entries to the pool.  The job is [call, todo]: the
\* request_id of its tick and the peers its loop has not yet sent to.
NewBeat(s) ==
    [call |-> s.request_id + 1, stage |-> "heartbeat",
     entry |-> LogEntry(0, Command(0)), live |-> TRUE,
     request_id |-> 0, index |-> 0, todo |-> Cluster(s.id)]

\* Leader.heartbeat_timer fires.
BeatTick(p) ==
    /\ peer[p].role = "Leader"
    /\ peer[p].request_id < limit.max_request_id
    /\ Commit(p, Ctx([peer[p] EXCEPT !.request_id = @ + 1,
                                     !.calls = @ \cup {NewBeat(peer[p])}]))
    /\ UNCHANGED <<issued, restarts, limit>>

\* A pool thread runs one turn of the loop of rpc_append_entries: it
\* builds the request for the next peer, reading self.request_id as it is
\* now, and sends it.
BeatSend(p) ==
    /\ \E job \in peer[p].calls :
          /\ job.stage = "heartbeat"
          /\ LET q == CHOOSE x \in job.todo : TRUE
                 rest == [job EXCEPT !.todo = @ \ {q}]
                 jobs == (peer[p].calls \ {job})
                             \cup (IF rest.todo = {} THEN {} ELSE {rest})
             IN  Commit(p, RpcAppendEntriesTo(
                               Ctx([peer[p] EXCEPT !.calls = jobs]),
                               peer[p].request_id, q))
    /\ UNCHANGED <<issued, restarts, limit>>

NextPulse ==
    \/ \E m \in msgs : Receive(m)
    \/ \E p \in DOMAIN peer : FollowerTimeout(p)
    \/ \E p \in DOMAIN peer : BeatTick(p)
    \/ \E p \in DOMAIN peer : BeatSend(p)

InitPulse ==
    Fresh([servers |-> {"A", "B", "C"},
           electors |-> <<{"A"}>>,
           max_term |-> 1, max_restarts |-> 0,
           max_commands |-> 0, max_request_id |-> PulseMaxRequestId,
           max_file |-> 0, lost |-> {}])

SpecPulse == InitPulse /\ [][NextPulse]_vars

\* C37 (heartbeat correlation): every AppendEntries that the send loop of
\* a heartbeat tick sends carries the request_id that this tick gave the
\* Leader.
C37_OneIdPerTick ==
    [][\A p \in DOMAIN peer : \A job \in peer[p].calls :
         (job.stage = "heartbeat" /\ job \notin peer'[p].calls) =>
             \A m \in msgs' \ msgs :
                 (m.type = "append_entries" /\ m.src = p) =>
                     m.request_id = job.call]_vars

\* C38 (next_index bounds): while a peer is Leader, its next_index for
\* every other peer is at least 1 and at most its last_log_index + 1.
C38_NextIndexBounds ==
    \A p \in DOMAIN peer : \A q \in Cluster(p) :
        peer[p].role = "Leader" =>
            /\ 1 <= peer[p].next_index[q]
            /\ peer[p].next_index[q] <= LastLogIndex(peer[p].log) + 1

\* Leader A has stepped next_index[B] back to 1 and holds a log of several
\* entries, and a rejection from B is addressed to it once more: handling
\* it leaves next_index[B] at 1.
C38_SteppedBack ==
    /\ peer["A"].role = "Leader"
    /\ peer["A"].next_index["B"] = 1
    /\ LastLogIndex(peer["A"].log) > 1
    /\ \E m \in msgs :
          /\ m.type = "append_entries_response" /\ m.dst = "A" /\ m.src = "B"
          /\ ~m.success
          /\ m.term = peer["A"].current_term
          /\ RequestHandler(peer["A"], m, m.src).s.next_index["B"] = 1

\* C39 (the durable log equals the log in memory): at every point of a run
\* of append_items and erase_from on a log, reloading the log from its file
\* gives the sequence that the log holds in memory.
C39_DurableEqualsMemory ==
    Refresh(peer["A"].log).cache = peer["A"].log.cache

\* C40 (the pool's append is serialised with role changes): the log.append
\* of an execute_command call never takes effect on a peer that is no
\* longer Leader: a step in which a pending append of a peer that is
\* Follower or Candidate leaves the pool does not change that peer's log.
C40_AppendOnlyWhileLeader ==
    [][\A p \in DOMAIN peer :
         (/\ peer[p].role # "Leader"
          /\ \E call \in peer[p].calls :
                call.stage = "append" /\ call \notin peer'[p].calls) =>
             peer'[p].log = peer[p].log]_vars

=============================================================================
